---- MODULE Spec2Model ----
(***************************************************************************)
(* The tiered cache of the KeepUp backend (src/app.py): a Redis fast tier  *)
(* with a fixed 12 hour TTL in front of a MongoDB durable tier that keeps  *)
(* an explicit expiry_time per document.  get_cached_result is the read    *)
(* path (tier 1, tier 2, lazy deletion, warming), set_cached_result the    *)
(* write path (tier 1 always, tier 2 for the permanent statuses).          *)
(*                                                                         *)
(* Time.  The clock time.time() is a float; the model counts it in ticks,  *)
(* TicksPerUnit ticks to one unit of SecondsPerUnit seconds, so that a     *)
(* clock reading need not be a whole unit and int() truncates.  All        *)
(* durations of the source are whole multiples of the unit.                *)
(***************************************************************************)
EXTENDS Integers, Sequences, FiniteSets, TLC

\* Last clock reading the model explores, in ticks.
MaxNow == 2

\* Resolution of the clock below one unit of time.
TicksPerUnit == 2

\* The cache keys in play (sha256 digests in the source, opaque here).
Keys == {"k1", "k2"}

(***************************************************************************)
(* Python values: a type tag and a content.  A str is the sequence of its  *)
(* characters, a dict the sequence of its (key, value) pairs.              *)
(***************************************************************************)
PyNone == [type |-> "NoneType", v |-> <<>>]

PyStr(chars) == [type |-> "str", v |-> chars]

PyDict(pairs) == [type |-> "dict", v |-> pairs]

\* Python truthiness of None, str and dict: None, "" and {} are falsy.
Truthy(x) == x.type # "NoneType" /\ Len(x.v) > 0

UPPER == <<"A", "B", "C", "D", "E", "F", "G", "H", "I", "J", "K", "L", "M",
           "N", "O", "P", "Q", "R", "S", "T", "U", "V", "W", "X", "Y", "Z">>

LOWER == <<"a", "b", "c", "d", "e", "f", "g", "h", "i", "j", "k", "l", "m",
           "n", "o", "p", "q", "r", "s", "t", "u", "v", "w", "x", "y", "z">>

\* The lower-case form of each upper-case letter.
ToLower == [c \in {UPPER[i] : i \in 1..Len(UPPER)} |->
              LOWER[CHOOSE i \in 1..Len(UPPER) : UPPER[i] = c]]

LowerChar(c) == IF c \in DOMAIN ToLower THEN ToLower[c] ELSE c

\* Mutant of str_lower: leaves the string as it is.
str_lower_identity(s) == s

\* str.lower(): every cased character replaced by its lower-case form.
str_lower(s) == [i \in 1..Len(s) |-> LowerChar(s[i])]

\* The statuses the durable tier keeps.
PERMANENT_STATUSES ==
    { <<"c", "a", "n", "c", "e", "l", "l", "e", "d">>,
      <<"c", "o", "n", "c", "l", "u", "d", "e", "d">>,
      <<"e", "n", "d", "e", "d">> }

\* The fast tier's TTL, in seconds.
DEFAULT_CACHE_TTL_SECONDS == 60 * 60 * 12

\* The model's unit of time, in seconds.
SecondsPerUnit == 60 * 60 * 12

\* Mutant of DEFAULT_CACHE_TTL: 24 hours.
DEFAULT_CACHE_TTL_day == 2 * (DEFAULT_CACHE_TTL_SECONDS \div SecondsPerUnit)

\* The fast tier's TTL, in units.
DEFAULT_CACHE_TTL == DEFAULT_CACHE_TTL_SECONDS \div SecondsPerUnit

\* 60 * 60 * 24 * 365 * 100 seconds (the durable retention), in units.
HUNDRED_YEARS == ((60 * 60 * 24 * 365) \div SecondsPerUnit) * 100

\* int(x) of a non-negative clock value x given in ticks: the whole units.
int(ticks) == ticks \div TicksPerUnit

(***************************************************************************)
(* json.dumps and json.loads on a dict of string fields.  The text is a    *)
(* sequence of tokens: braces, quotes, colon, comma and the strings.       *)
(***************************************************************************)
RECURSIVE DumpPairs(_)
DumpPairs(pairs) ==
    IF pairs = <<>> THEN <<>>
    ELSE << "\"", pairs[1][1], "\"", ":", "\"", pairs[1][2], "\"" >>
         \o (IF Len(pairs) > 1 THEN <<",">> ELSE <<>>)
         \o DumpPairs(Tail(pairs))

\* Mutant of json_dumps: writes the first field only.
json_dumps_first(pairs) ==
    <<"{">> \o DumpPairs(IF pairs = <<>> THEN <<>> ELSE <<pairs[1]>>) \o <<"}">>

json_dumps(pairs) == <<"{">> \o DumpPairs(pairs) \o <<"}">>

\* Parses "k":"v" members from position i on; ok is FALSE on malformed text.
RECURSIVE LoadPairs(_, _, _)
LoadPairs(s, i, acc) ==
    IF i + 6 <= Len(s)
       /\ s[i] = "\"" /\ s[i + 2] = "\"" /\ s[i + 3] = ":"
       /\ s[i + 4] = "\"" /\ s[i + 6] = "\""
    THEN LET acc2 == Append(acc, <<s[i + 1], s[i + 5]>>)
         IN IF i + 7 = Len(s) /\ s[i + 7] = "}"
            THEN [ok |-> TRUE, v |-> acc2]
            ELSE IF i + 7 < Len(s) /\ s[i + 7] = ","
                 THEN LoadPairs(s, i + 8, acc2)
                 ELSE [ok |-> FALSE, v |-> <<>>]
    ELSE [ok |-> FALSE, v |-> <<>>]

json_loads(s) ==
    IF Len(s) >= 2 /\ s[1] = "{"
    THEN IF Len(s) = 2 /\ s[2] = "}"
         THEN [ok |-> TRUE, v |-> <<>>]
         ELSE LoadPairs(s, 2, <<>>)
    ELSE [ok |-> FALSE, v |-> <<>>]


(***************************************************************************)
(* The values the callers pass: result dicts and status strings.           *)
(***************************************************************************)
EmptyResult == <<>>

RenewedResult == << <<"status", "Renewed">>, <<"summary", "s">> >>

Payloads == {EmptyResult, RenewedResult}

\* A result that only a key outside the threads' keys is stored with.
OtherResult == << <<"status", "Ended">> >>

Statuses ==
    { PyStr(<<"C", "A", "N", "C", "E", "L", "L", "E", "D">>),
      PyStr(<<"c", "a", "n", "c", "e", "l", "l", "e", "d">>),
      PyStr(<<"u", "n", "k", "n", "o", "w", "n">>),
      PyNone }

WARM == PyStr(<<"W", "A", "R", "M">>)

\* Documents found in the durable tier when the process starts: one that
\* expires after one unit and one without an expiry_time.
SeedDocs ==
    { [data |-> RenewedResult, expiry_time |-> 1],
      [data |-> EmptyResult] }

VARIABLES
    now,            \* time.time(), in ticks
    r,              \* the Redis handle: "None" or "conn"
    db_collection,  \* the MongoDB collection handle: "None" or "conn"
    redis,          \* Redis: key -> [val: JSON text, exp: tick of expiry]
    mongo,          \* ai_status: _id -> document (a dict of its other fields)
    last,           \* the handler call that ran last, what it did and returned
    th,             \* the request threads: position and locals of each
    hist            \* the writes that reached each tier, whether a call failed

vars == <<now, r, db_collection, redis, mongo, last, th, hist>>

\* The request threads of the server, and what they are given.
Threads == {"t1", "t2"}

ThreadKeys == {"k1"}

ThreadStatuses ==
    { PyStr(<<"c", "a", "n", "c", "e", "l", "l", "e", "d">>),
      PyStr(<<"u", "n", "k", "n", "o", "w", "n">>) }

\* A local variable that has not been assigned.
Unbound == [type |-> "unbound", v |-> <<>>]

\* A thread between two calls, holding what its last call returned.
Idle(op, key, result) ==
    [pc |-> "idle", op |-> op, key |-> key, data |-> <<>>, status |-> PyNone,
     expiry_time |-> 0, json_data |-> Unbound, result |-> result]

NoWrite == [by |-> "none", data |-> <<>>, expiry_time |-> 0]

\* The history when the process starts: no write has reached a tier, no
\* tier call has failed, and the payloads stored under each key are those
\* of the documents the durable tier starts with.
NoHistory(m) ==
    [fast |-> [k \in Keys |-> NoWrite],
     durable |-> [k \in Keys |-> NoWrite],
     failed |-> FALSE,
     written |-> [k \in Keys |-> IF k \in DOMAIN m THEN {m[k].data} ELSE {}]]

\* Which tier calls of one handler run raise (connection error, timeout):
\* a lookup calls r.get, find_one and then r.set or delete_one, a populate
\* r.set and update_one.
Failures == [rget : BOOLEAN, rset : BOOLEAN, mfind : BOOLEAN,
             mdel : BOOLEAN, mupd : BOOLEAN]

\* A call on a tier can only fail where the handle exists.
Possible(f) ==
    /\ (f.rget \/ f.rset) => r = "conn"
    /\ (f.mfind \/ f.mdel \/ f.mupd) => db_collection = "conn"

\* A lookup makes either the warming r.set or the delete_one, never both.
LookupFailures ==
    {f \in Failures : Possible(f) /\ ~f.mupd /\ ~(f.rset /\ f.mdel)}

PopulateFailures ==
    {f \in Failures : Possible(f) /\ ~f.rget /\ ~f.mfind /\ ~f.mdel}

(***************************************************************************)
(* The two stores.                                                         *)
(***************************************************************************)
\* r.get(key): the stored text, or None.
RedisGet(rs, key) ==
    IF key \in DOMAIN rs THEN PyStr(rs[key].val) ELSE PyNone

\* Mutant of RedisSet: APPEND, the text is added to the entry's text.
RedisAppend(rs, key, text, ex) ==
    [k \in DOMAIN rs \cup {key} |->
        IF k = key
        THEN [val |-> (IF key \in DOMAIN rs THEN rs[key].val ELSE <<>>) \o text,
              exp |-> now + ex * TicksPerUnit]
        ELSE rs[k]]

\* Mutant of RedisSet: SET ... NX, an existing entry is kept.
RedisSetNX(rs, key, text, ex) ==
    IF key \in DOMAIN rs THEN rs
    ELSE [k \in DOMAIN rs \cup {key} |->
            IF k = key THEN [val |-> text, exp |-> now + ex * TicksPerUnit]
            ELSE rs[k]]

\* r.set(key, text, ex=ex): overwrites the entry, which lives ex units.
RedisSet(rs, key, text, ex) ==
    [k \in DOMAIN rs \cup {key} |->
        IF k = key THEN [val |-> text, exp |-> now + ex * TicksPerUnit]
        ELSE rs[k]]

\* Redis drops the entries whose TTL has run out at clock reading t.
RedisExpire(rs, t) ==
    [k \in {j \in DOMAIN rs : rs[j].exp > t} |-> rs[k]]

\* Mutant of MongoFindOne: find_one({}), any document of the collection.
MongoFindAny(m, key) ==
    IF DOMAIN m # {} THEN PyDict(m[CHOOSE k \in DOMAIN m : TRUE]) ELSE PyNone

\* db_collection.find_one({"_id": key}): the document, or None.
MongoFindOne(m, key) ==
    IF key \in DOMAIN m THEN PyDict(m[key]) ELSE PyNone

\* Mutant of MongoDeleteOne: deletes nothing.
MongoDeleteNothing(m, key) == m

\* db_collection.delete_one({"_id": key}).
MongoDeleteOne(m, key) == [k \in DOMAIN m \ {key} |-> m[k]]

\* Mutant of MongoUpdateOne: $setOnInsert, an existing document is kept.
MongoSetOnInsert(m, key, fields) ==
    IF key \in DOMAIN m THEN m
    ELSE [k \in DOMAIN m \cup {key} |-> IF k = key THEN fields ELSE m[k]]

\* db_collection.update_one({"_id": key}, {"$set": fields}, upsert=True):
\* one atomic write of the named fields, the document's other fields kept.
MongoUpdateOne(m, key, fields) ==
    [k \in DOMAIN m \cup {key} |->
        IF k # key THEN m[k]
        ELSE IF key \in DOMAIN m
             THEN [fld \in DOMAIN m[key] \cup DOMAIN fields |->
                     IF fld \in DOMAIN fields THEN fields[fld] ELSE m[key][fld]]
             ELSE fields]

\* Mutant of DictGet: a missing field reads as a time 100 years away.
DictGetFar(doc, field, default) ==
    IF field \in DOMAIN doc THEN doc[field] ELSE HUNDRED_YEARS

\* document.get(field, default)
DictGet(doc, field, default) ==
    IF field \in DOMAIN doc THEN doc[field] ELSE default

\* One tier call as the handler made it.
Call(tier, op, ok) == [tier |-> tier, op |-> op, ok |-> ok]

(***************************************************************************)
(* The handlers, run from start to end.  cx carries the two stores through *)
(* the run, the tier calls made so far, the document find_one returned and *)
(* whether an exception escaped.                                           *)
(***************************************************************************)
Enter == [redis |-> redis, mongo |-> mongo, calls |-> <<>>, raised |-> FALSE,
          found |-> PyNone]

\* Mutant of IsPermanent: compares the status as given.
IsPermanentExact(status_lower, status) == status.v \in PERMANENT_STATUSES

\* status_lower in PERMANENT_STATUSES
IsPermanent(status_lower, status) == status_lower \in PERMANENT_STATUSES

\* Mutant of ExpiryTime: the fast tier's TTL instead of 100 years.
ExpiryTimeShort == int(now + DEFAULT_CACHE_TTL * TicksPerUnit)

\* int(time.time() + (60 * 60 * 24 * 365 * 100))
ExpiryTime == int(now + HUNDRED_YEARS * TicksPerUnit)

\* Step 1 of set_cached_result: the fast tier, always.
SetTier1(cx, key, data, f) ==
    IF r # "None"
    THEN IF f.rset
         THEN [cx EXCEPT !.calls = Append(@, Call("fast", "set", FALSE))]
         ELSE [cx EXCEPT
                 !.redis = RedisSet(@, key, json_dumps(data),
                                    DEFAULT_CACHE_TTL),
                 !.calls = Append(@, Call("fast", "set", TRUE))]
    ELSE cx

\* Mutant of SetTier2: the durable tier is written whatever the status.
SetTier2_any_status(cx, key, data, status, f) ==
    IF db_collection # "None" /\ ~f.mupd
    THEN [cx EXCEPT
            !.mongo = MongoUpdateOne(@, key,
                          [data |-> data, expiry_time |-> ExpiryTime]),
            !.calls = Append(@, Call("durable", "update_one", TRUE))]
    ELSE cx

\* Step 2 of set_cached_result: the durable tier, for a permanent status.
SetTier2(cx, key, data, status, f) ==
    IF IsPermanent(str_lower(status.v), status)
    THEN IF db_collection # "None"
         THEN IF f.mupd
              THEN [cx EXCEPT
                      !.calls = Append(@, Call("durable", "update_one", FALSE))]
              ELSE [cx EXCEPT
                      !.mongo = MongoUpdateOne(@, key,
                                    [data |-> data, expiry_time |-> ExpiryTime]),
                      !.calls = Append(@, Call("durable", "update_one", TRUE))]
         ELSE cx
    ELSE cx

\* set_cached_result(key, data, status).  status.lower() raises
\* AttributeError when status is not a str, before either tier is touched.
set_cached_result(cx, key, data, status, f) ==
    IF status.type # "str"
    THEN [cx EXCEPT !.raised = TRUE]
    ELSE SetTier2(SetTier1(cx, key, data, f), key, data, status, f)

Return(cx, result, out) == [cx |-> cx, result |-> result, out |-> out]

\* Mutant of IsFresh: a document is fresh up to and including its expiry.
IsFreshInclusive(expiry_time) == now <= expiry_time * TicksPerUnit

\* time.time() < expiry_time
IsFresh(expiry_time) == now < expiry_time * TicksPerUnit

\* Tier 2 of get_cached_result.  An exception of any call in the try block
\* (find_one, the warming, delete_one) ends in "Cache MISS".
GetTier2(cx, key, f) ==
    IF db_collection = "None" THEN Return(cx, PyNone, "Cache MISS")
    ELSE IF f.mfind
    THEN Return([cx EXCEPT
                   !.calls = Append(@, Call("durable", "find_one", FALSE))],
                PyNone, "Cache MISS")
    ELSE
      LET document == MongoFindOne(cx.mongo, key)
          c1 == [cx EXCEPT
                   !.calls = Append(@, Call("durable", "find_one", TRUE)),
                   !.found = document]
      IN IF document.type = "NoneType" THEN Return(c1, PyNone, "Cache MISS")
         ELSE
           LET expiry_time == DictGet(document.v, "expiry_time", 0)
           IN IF IsFresh(expiry_time)
              THEN LET w == IF r # "None"
                            THEN set_cached_result(c1, key, document.v.data,
                                                   WARM, f)
                            ELSE c1
                   IN IF w.raised
                      THEN Return([w EXCEPT !.raised = FALSE],
                                  PyNone, "Cache MISS")
                      ELSE Return(w, PyDict(document.v.data),
                                  "Cache HIT: MongoDB (Tier 2)")
              ELSE IF f.mdel
                   THEN Return([c1 EXCEPT !.calls =
                                   Append(@, Call("durable", "delete_one", FALSE))],
                               PyNone, "Cache MISS")
                   ELSE Return([c1 EXCEPT
                                  !.mongo = MongoDeleteOne(@, key),
                                  !.calls =
                                    Append(@, Call("durable", "delete_one", TRUE))],
                               PyNone, "Cache MISS")

\* Mutant of get_cached_result: an error of r.get ends the lookup.
get_cached_result_no_fallthrough(cx, key, f) ==
    IF r = "None" THEN GetTier2(cx, key, f)
    ELSE IF f.rget
    THEN Return([cx EXCEPT !.calls = Append(@, Call("fast", "get", FALSE))],
                PyNone, "Cache MISS")
    ELSE
      LET c1 == [cx EXCEPT !.calls = Append(@, Call("fast", "get", TRUE))]
          json_data == RedisGet(cx.redis, key)
      IN IF Truthy(json_data) /\ json_loads(json_data.v).ok
         THEN Return(c1, PyDict(json_loads(json_data.v).v),
                     "Cache HIT: Redis (Tier 1)")
         ELSE GetTier2(c1, key, f)

\* Mutant of get_cached_result: tier 2 is consulted even on a tier 1 hit.
get_cached_result_both(cx, key, f) ==
    LET t2 == GetTier2(cx, key, f)
    IN IF r # "None" /\ ~f.rget /\ Truthy(RedisGet(cx.redis, key))
          /\ json_loads(RedisGet(cx.redis, key).v).ok
       THEN Return([t2.cx EXCEPT
                      !.calls = <<Call("fast", "get", TRUE)>> \o @],
                   PyDict(json_loads(RedisGet(cx.redis, key).v).v),
                   "Cache HIT: Redis (Tier 1)")
       ELSE t2

\* get_cached_result(key): tier 1, and tier 2 after a miss or an error.
get_cached_result(cx, key, f) ==
    IF r = "None" THEN GetTier2(cx, key, f)
    ELSE IF f.rget
    THEN GetTier2([cx EXCEPT !.calls = Append(@, Call("fast", "get", FALSE))],
                  key, f)
    ELSE
      LET c1 == [cx EXCEPT !.calls = Append(@, Call("fast", "get", TRUE))]
          json_data == RedisGet(cx.redis, key)
      IN IF Truthy(json_data) /\ json_loads(json_data.v).ok
         THEN Return(c1, PyDict(json_loads(json_data.v).v),
                     "Cache HIT: Redis (Tier 1)")
         ELSE GetTier2(c1, key, f)

(***************************************************************************)
(* The specification: handler calls one after another, and the clock.      *)
(* last observes the most recent call: its arguments, the clock reading    *)
(* when it ran, the tier calls it made, the document it found, what it     *)
(* printed and returned, and whether it repeats the call before it.  A     *)
(* lookup is observed right after a populate and a populate right after    *)
(* the same populate when no tier call of either fails (again); before    *)
(* any other call the observation is dropped (Forget), which changes       *)
(* neither tier: every sequence of calls is a behaviour of the two tiers.  *)
(* The history hist is kept by the threaded specification only.            *)
(***************************************************************************)
NoCall == [op |-> "none", key |-> "", data |-> PyNone, status |-> PyNone,
           at |-> 0, result |-> PyNone, out |-> "", raised |-> FALSE,
           calls |-> <<>>, found |-> PyNone, again |-> FALSE]

Init ==
    /\ now = 0
    /\ r \in {"None", "conn"}
    /\ db_collection \in {"None", "conn"}
    /\ redis = <<>>
    /\ \E S \in SUBSET Keys : mongo \in [S -> SeedDocs]
    /\ last = NoCall
    /\ th = [p \in Threads |-> Idle("none", "", PyNone)]
    /\ hist = NoHistory(<<>>)

\* A caller runs get_cached_result(key).
Lookup(key, f) ==
    /\ last.op \in {"none", "set"}
    /\ \E g \in {get_cached_result(Enter, key, f)} :
          /\ redis' = g.cx.redis
          /\ mongo' = g.cx.mongo
          /\ last' = [op |-> "get", key |-> key, data |-> PyNone,
                      status |-> PyNone, at |-> now, result |-> g.result,
                      out |-> g.out, raised |-> g.cx.raised,
                      calls |-> g.cx.calls, found |-> g.cx.found,
                      again |-> FALSE]
    /\ UNCHANGED <<now, r, db_collection, th, hist>>

\* A caller runs set_cached_result(key, data, status).
Populate(key, data, status, f) ==
    /\ \/ last.op = "none"
       \/ /\ last.op = "set" /\ last.key = key
          /\ last.data = PyDict(data) /\ last.status = status
          /\ \A i \in 1..Len(last.calls) : last.calls[i].ok
          /\ ~f.rset /\ ~f.mupd
    /\ \E s \in {set_cached_result(Enter, key, data, status, f)} :
          /\ redis' = s.redis
          /\ mongo' = s.mongo
          /\ last' = [op |-> "set", key |-> key, data |-> PyDict(data),
                      status |-> status, at |-> now, result |-> PyNone,
                      out |-> "", raised |-> s.raised, calls |-> s.calls,
                      found |-> PyNone, again |-> last.op = "set"]
    /\ UNCHANGED <<now, r, db_collection, th, hist>>

\* The clock advances; Redis drops what has expired.
Tick ==
    /\ now < MaxNow
    /\ now' = now + 1
    /\ redis' = RedisExpire(redis, now + 1)
    /\ UNCHANGED <<r, db_collection, mongo, last, th, hist>>

\* The observation of the last call is dropped.
Forget ==
    /\ last.op # "none"
    /\ last' = NoCall
    /\ UNCHANGED <<now, r, db_collection, redis, mongo, th, hist>>

Next ==
    \/ \E key \in Keys, f \in LookupFailures : Lookup(key, f)
    \/ \E key \in Keys, data \in Payloads, status \in Statuses,
          f \in PopulateFailures : Populate(key, data, status, f)
    \/ Tick
    \/ Forget

Spec == Init /\ [][Next]_vars

(***************************************************************************)
(* The threaded specification: the server runs the handlers in request     *)
(* threads, and the calls on the two stores of different threads           *)
(* interleave.  A step is one call on a store together with the local      *)
(* computation up to the next one.  hist records, for each tier and key,   *)
(* the arguments of the write the tier received last, for each key the     *)
(* payloads that the populate calls have stored under it (or that it       *)
(* started with), and whether any tier call has failed.  The durable tier  *)
(* starts with a document of a key that no thread is given.                *)
(***************************************************************************)
InitThreaded ==
    /\ now = 0
    /\ r \in {"None", "conn"}
    /\ db_collection \in {"None", "conn"}
    /\ redis = <<>>
    /\ \E S \in SUBSET ThreadKeys :
          \E m \in [S -> SeedDocs] :
             mongo = [k \in S \cup (Keys \ ThreadKeys) |->
                        IF k \in S THEN m[k]
                        ELSE [data |-> OtherResult, expiry_time |-> 1]]
    /\ last = NoCall
    /\ th = [p \in Threads |-> Idle("none", "", PyNone)]
    /\ hist = NoHistory(mongo)

\* The handler of thread p returns: a lookup the data it holds, a populate
\* nothing.
Finish(t) ==
    Idle(t.op, t.key, IF t.op = "get" THEN PyDict(t.data) ELSE PyNone)

\* After step 1 of set_cached_result: on to update_one with the expiry
\* computed, or done.
AfterSetTier1(t) ==
    IF IsPermanent(str_lower(t.status.v), t.status) /\ db_collection # "None"
    THEN [t EXCEPT !.pc = "s2", !.expiry_time = ExpiryTime]
    ELSE Finish(t)

\* Thread p enters set_cached_result(key, data, status).
CallSet(p, key, data, status) ==
    /\ th[p].pc = "idle"
    /\ th' = [th EXCEPT ![p] =
                IF status.type # "str" THEN Idle("set", key, PyNone)
                ELSE LET t == [pc |-> "s1", op |-> "set", key |-> key,
                               data |-> data, status |-> status,
                               expiry_time |-> 0, json_data |-> Unbound,
                               result |-> PyNone]
                     IN IF r # "None" THEN t ELSE AfterSetTier1(t)]
    /\ UNCHANGED <<now, r, db_collection, redis, mongo, last, hist>>

\* Thread p calls r.set, in a populate or in the warming of a lookup.
StepSet1(p, fail) ==
    LET t == th[p]
    IN /\ t.pc = "s1"
       /\ IF fail
          THEN redis' = redis /\ hist' = [hist EXCEPT !.failed = TRUE]
          ELSE /\ redis' = RedisSet(redis, t.key, json_dumps(t.data),
                                    DEFAULT_CACHE_TTL)
               /\ hist' = [hist EXCEPT
                             !.fast[t.key] =
                               [by |-> IF t.op = "get" THEN "warm"
                                       ELSE "populate",
                                data |-> t.data, expiry_time |-> 0],
                             !.written[t.key] =
                               IF t.op = "set" THEN @ \cup {t.data} ELSE @]
       /\ th' = [th EXCEPT ![p] = AfterSetTier1(t)]
       /\ UNCHANGED <<now, r, db_collection, mongo, last>>

\* Thread p calls update_one.
StepSet2(p, fail) ==
    LET t == th[p]
    IN /\ t.pc = "s2"
       /\ IF fail
          THEN mongo' = mongo /\ hist' = [hist EXCEPT !.failed = TRUE]
          ELSE /\ mongo' = MongoUpdateOne(mongo, t.key,
                              [data |-> t.data, expiry_time |-> t.expiry_time])
               /\ hist' = [hist EXCEPT
                             !.durable[t.key] =
                               [by |-> IF t.op = "get" THEN "warm"
                                       ELSE "populate",
                                data |-> t.data,
                                expiry_time |-> t.expiry_time],
                             !.written[t.key] =
                               IF t.op = "set" THEN @ \cup {t.data} ELSE @]
       /\ th' = [th EXCEPT ![p] = Finish(t)]
       /\ UNCHANGED <<now, r, db_collection, redis, last>>

\* Thread p enters get_cached_result(key).
CallGet(p, key) ==
    /\ th[p].pc = "idle"
    /\ th' = [th EXCEPT ![p] =
                [pc |-> IF r # "None" THEN "g1" ELSE "g2", op |-> "get",
                 key |-> key, data |-> <<>>, status |-> PyNone,
                 expiry_time |-> 0, json_data |-> Unbound,
                 result |-> PyNone]]
    /\ UNCHANGED <<now, r, db_collection, redis, mongo, last, hist>>

\* Thread p calls r.get: a hit returns, a miss or an error goes to tier 2.
StepGet1(p, fail) ==
    LET t == th[p]
        json_data == RedisGet(redis, t.key)
    IN /\ t.pc = "g1"
       /\ th' = [th EXCEPT ![p] =
                   IF ~fail /\ Truthy(json_data) /\ json_loads(json_data.v).ok
                   THEN Idle("get", t.key, PyDict(json_loads(json_data.v).v))
                   ELSE [t EXCEPT !.pc = "g2",
                                  !.json_data =
                                     IF fail THEN Unbound ELSE json_data]]
       /\ hist' = IF fail THEN [hist EXCEPT !.failed = TRUE] ELSE hist
       /\ UNCHANGED <<now, r, db_collection, redis, mongo, last>>

\* Thread p calls find_one and compares the expiry with the clock.
StepGet2(p, fail) ==
    LET t == th[p]
        document == MongoFindOne(mongo, t.key)
    IN /\ t.pc = "g2"
       /\ fail => db_collection # "None"
       /\ th' = [th EXCEPT ![p] =
                   IF db_collection = "None" \/ fail \/ document.type = "NoneType"
                   THEN Idle("get", t.key, PyNone)
                   ELSE IF IsFresh(DictGet(document.v, "expiry_time", 0))
                        THEN IF r # "None"
                             THEN [t EXCEPT !.pc = "s1",
                                            !.data = document.v.data,
                                            !.status = WARM]
                             ELSE Idle("get", t.key, PyDict(document.v.data))
                        ELSE [t EXCEPT !.pc = "g3"]]
       /\ hist' = IF fail THEN [hist EXCEPT !.failed = TRUE] ELSE hist
       /\ UNCHANGED <<now, r, db_collection, redis, mongo, last>>

\* Thread p calls delete_one on the stale document.
StepGet3(p, fail) ==
    LET t == th[p]
    IN /\ t.pc = "g3"
       /\ IF fail
          THEN mongo' = mongo /\ hist' = [hist EXCEPT !.failed = TRUE]
          ELSE /\ mongo' = MongoDeleteOne(mongo, t.key)
               /\ hist' = [hist EXCEPT !.durable[t.key] =
                             [by |-> "delete", data |-> <<>>, expiry_time |-> 0]]
       /\ th' = [th EXCEPT ![p] = Idle("get", t.key, PyNone)]
       /\ UNCHANGED <<now, r, db_collection, redis, last>>

NextThreaded ==
    \/ \E p \in Threads, key \in ThreadKeys, data \in Payloads,
          status \in ThreadStatuses : CallSet(p, key, data, status)
    \/ \E p \in Threads, fail \in BOOLEAN : StepSet1(p, fail)
    \/ \E p \in Threads, fail \in BOOLEAN : StepSet2(p, fail)
    \/ \E p \in Threads, key \in ThreadKeys : CallGet(p, key)
    \/ \E p \in Threads, fail \in BOOLEAN : StepGet1(p, fail)
    \/ \E p \in Threads, fail \in BOOLEAN : StepGet2(p, fail)
    \/ \E p \in Threads, fail \in BOOLEAN : StepGet3(p, fail)
    \/ Tick

SpecThreaded == InitThreaded /\ [][NextThreaded]_vars

(***************************************************************************)
(* The key derivation: _cache_key(title, media_type), applied to titles of *)
(* blanks and letters in both cases.  sha256 is not computed: the digest   *)
(* of a text is modelled as the text itself under a tag (injective).       *)
(***************************************************************************)
\* Longest title the model derives a key for.
MaxTitleLen == 3

TitleChars == {" ", "T", "t", "b"}

Titles == UNION {[1..n -> TitleChars] : n \in 0..MaxTitleLen}

\* "tv" if is_tv else "movie"
MediaTypes == { <<"t", "v">>, <<"m", "o", "v", "i", "e">> }

\* The characters str.strip() removes.
WHITESPACE == {" ", "\t", "\n", "\r"}

RECURSIVE str_lstrip(_)
str_lstrip(s) ==
    IF s # <<>> /\ Head(s) \in WHITESPACE THEN str_lstrip(Tail(s)) ELSE s

RECURSIVE str_rstrip(_)
str_rstrip(s) ==
    IF s # <<>> /\ s[Len(s)] \in WHITESPACE
    THEN str_rstrip(SubSeq(s, 1, Len(s) - 1))
    ELSE s

\* str.strip(): leading and trailing whitespace removed.
str_strip(s) == str_rstrip(str_lstrip(s))

\* hashlib.sha256(raw.encode()).hexdigest(), as an injective function.
sha256_hexdigest(raw) == <<"sha256", raw>>

\* Mutant of _cache_key: the title is lower-cased but not stripped.
cache_key_unstripped(title, media_type) ==
    sha256_hexdigest(str_lower(title) \o <<"|">> \o media_type)

\* raw = f"{title.lower().strip()}|{media_type}"; sha256(raw).hexdigest()
_cache_key(title, media_type) ==
    sha256_hexdigest(str_strip(str_lower(title)) \o <<"|">> \o media_type)

\* One derivation as observed: the arguments and the key returned.
KeyCall(title, media_type, key) ==
    [op |-> "_cache_key", title |-> title, media_type |-> media_type,
     result |-> key]

InitKey ==
    /\ now = 0
    /\ r = "None"
    /\ db_collection = "None"
    /\ redis = <<>>
    /\ mongo = <<>>
    /\ last = NoCall
    /\ th = [p \in Threads |-> Idle("none", "", PyNone)]
    /\ hist = NoHistory(<<>>)

\* A caller runs _cache_key(title, media_type).
DeriveKey(title, media_type) ==
    /\ last' = KeyCall(title, media_type, _cache_key(title, media_type))
    /\ UNCHANGED <<now, r, db_collection, redis, mongo, th, hist>>

NextKey ==
    \E title \in Titles, media_type \in MediaTypes :
        DeriveKey(title, media_type)

SpecKey == InitKey /\ [][NextKey]_vars

(***************************************************************************)
(* The show-status handler: show_status() from the request payload to the  *)
(* response, with its collaborators.  The search provider and the language *)
(* model are outside the program: what they answer is an input of the      *)
(* request.  BRAVE_API_KEY and client are set once when the process        *)
(* starts; each request here draws them anew, so that one run covers the   *)
(* processes of every configuration.                                       *)
(***************************************************************************)
Unknown == <<"U", "n", "k", "n", "o", "w", "n">>

Cancelled == <<"C", "a", "n", "c", "e", "l", "l", "e", "d">>

\* payload.get("showName", ""): a blank one, and a title with a blank
\* before it.
ShowNames == { <<" ">>, <<" ", "T">> }

\* What the search provider can answer: nothing, or one result.
SearchResults ==
    { <<>>, << [title |-> "t1", url |-> "u1", description |-> "d1"] >> }

\* What the language model can answer: an object with a status, an object
\* without one, and a text that is not JSON.
Completions ==
    { json_dumps(<< <<"status", Cancelled>>, <<"summary", "s">> >>),
      json_dumps(<< <<"summary", "s">> >>),
      <<"Sorry">> }

\* dict.get(field, default) on a dict given by its pairs.
dict_get(pairs, field, default) ==
    IF \E i \in 1..Len(pairs) : pairs[i][1] = field
    THEN pairs[CHOOSE i \in 1..Len(pairs) : pairs[i][1] = field][2]
    ELSE default

\* brave_search(show_title, media_type): no key, an error of the request
\* and an empty answer all give [].
brave_search(BRAVE_API_KEY, answer, fail) ==
    IF BRAVE_API_KEY = "" THEN <<>>
    ELSE IF fail THEN <<>>
    ELSE answer

\* summarise_with_openai(...): the model's text, or a fallback object.
summarise_with_openai(client, completion, fail) ==
    IF client = "None"
    THEN json_dumps(<< <<"status", Unknown>>,
                       <<"summary", "AI is unavailable (Missing Key).">> >>)
    ELSE IF fail
    THEN json_dumps(<< <<"status", Unknown>>,
                       <<"summary", "Could not generate summary.">> >>)
    ELSE completion

\* One call the handler made: the function, the arguments, what it returned.
Step(name, args, ret) == [name |-> name, args |-> args, ret |-> ret]

\* What a request ran and answered: the calls in order, the stores after
\* it, the tier calls made, the HTTP status and the body.
Response(cx, trace, code, body) ==
    [cx |-> cx, trace |-> trace, code |-> code, body |-> body]

\* The inputs of one request besides its payload.  An input the request
\* does not read is left at its first value.
Outcomes ==
    {o \in [BRAVE_API_KEY : {"", "key"}, client : {"None", "conn"},
            answer : SearchResults, search_fails : BOOLEAN,
            completion : Completions, ai_fails : BOOLEAN] :
       /\ o.BRAVE_API_KEY = "" => (o.answer = <<>> /\ ~o.search_fails)
       /\ o.answer = <<>> => ~o.search_fails
       /\ (o.answer = <<>> \/ o.search_fails)
            => (o.client = "None" /\ o.completion = <<"Sorry">> /\ ~o.ai_fails)
       /\ o.client = "None" => (o.completion = <<"Sorry">> /\ ~o.ai_fails)
       /\ o.ai_fails => o.completion = <<"Sorry">>}

\* A tier that is down during a request fails every call the request makes.
ShowFailures ==
    {f \in Failures : /\ Possible(f) /\ f.rget = f.rset
                      /\ f.mfind = f.mdel /\ f.mdel = f.mupd}

\* The handler's except clause: an exception of the populate becomes a 500.
Responded(s, trace, result) ==
    IF s.raised
    THEN Response([s EXCEPT !.raised = FALSE], trace, 500,
                  PyDict(<< <<"error", "e">> >>))
    ELSE Response(s, trace, 200, PyDict(result))

\* set_cached_result(key, result, status=result["status"]); return result
Cached(cx, key, trace, result, f) ==
    LET status == PyStr(dict_get(result, "status", <<>>))
    IN Responded(set_cached_result(cx, key, result, status, f),
                 Append(trace, Step("set_cached_result",
                                    <<key, result, status>>, PyNone)),
                 result)

\* Mutant of NoSources: the fallback result is returned without a populate.
NoSources_uncached(cx, key, trace, f) ==
    Response(cx, trace, 200,
             PyDict(<< <<"status", Unknown>>,
                       <<"summary", "No recent information found.">>,
                       <<"sources", <<>> >> >>))

\* if not sources: the fallback result, cached and returned.
NoSources(cx, key, trace, f) ==
    Cached(cx, key, trace,
           << <<"status", Unknown>>,
              <<"summary", "No recent information found.">>,
              <<"sources", <<>> >> >>, f)

\* The rest of the try block: the summary, parsed, cached and returned.
Summarised(cx, key, trace, show_name, media_type, sources, o, f) ==
    LET ai_json_string ==
            summarise_with_openai(o.client, o.completion, o.ai_fails)
        ai_data ==
            IF json_loads(ai_json_string).ok THEN json_loads(ai_json_string).v
            ELSE << <<"status", Unknown>>, <<"summary", ai_json_string>> >>
        result ==
            << <<"status", dict_get(ai_data, "status", Unknown)>>,
               <<"summary", dict_get(ai_data, "summary",
                                     "No summary available.")>>,
               <<"sources", [i \in 1..Len(sources) |->
                               [title |-> sources[i].title,
                                url |-> sources[i].url]]>> >>
    IN Cached(cx, key,
              Append(trace, Step("summarise_with_openai",
                                 <<show_name, media_type, sources>>,
                                 ai_json_string)),
              result, f)

\* show_status(): the request payload's showName and isTV, to the response.
show_status(showName, is_tv, o, f) ==
    LET show_name == str_strip(showName)
        media_type == IF is_tv THEN <<"t", "v">> ELSE <<"m", "o", "v", "i", "e">>
        key == _cache_key(show_name, media_type)
        g == get_cached_result(Enter, key, f)
        sources == brave_search(o.BRAVE_API_KEY, o.answer, o.search_fails)
        t1 == << Step("get_cached_result", <<key>>, g.result) >>
        t2 == Append(t1, Step("brave_search", <<show_name, media_type>>,
                              sources))
    IN IF show_name = <<>>
       THEN Response(Enter, <<>>, 400,
                     PyDict(<< <<"error", "showName is required">> >>))
       ELSE IF Truthy(g.result)
       THEN Response(g.cx, t1, 200,
                     PyDict(g.result.v \o << <<"cached", TRUE>> >>))
       ELSE IF sources = <<>>
       THEN NoSources(g.cx, key, t2, f)
       ELSE Summarised(g.cx, key, t2, show_name, media_type, sources, o, f)

\* The cache keys the requests of the model derive.
ShowKeys ==
    {_cache_key(str_strip(n), m) : n \in ShowNames \ {<<" ">>}, m \in MediaTypes}

InitShow ==
    /\ now = 0
    /\ r \in {"None", "conn"}
    /\ db_collection \in {"None", "conn"}
    /\ redis = <<>>
    /\ \E S \in SUBSET ShowKeys :
          mongo = [k \in S |-> [data |-> RenewedResult, expiry_time |-> 1]]
    /\ last = NoCall
    /\ th = [p \in Threads |-> Idle("none", "", PyNone)]
    /\ hist = NoHistory(<<>>)

\* A client posts to /api/show-status.
ShowStatus(showName, is_tv, o, f) ==
    /\ last.op = "none"
    /\ \E q \in {show_status(showName, is_tv, o, f)} :
          /\ redis' = q.cx.redis
          /\ mongo' = q.cx.mongo
          /\ last' = [op |-> "show_status", showName |-> showName,
                      is_tv |-> is_tv, trace |-> q.trace,
                      code |-> q.code, body |-> q.body]
    /\ UNCHANGED <<now, r, db_collection, th, hist>>

NextShow ==
    \/ \E showName \in ShowNames, is_tv \in BOOLEAN, o \in Outcomes,
          f \in ShowFailures : ShowStatus(showName, is_tv, o, f)
    \/ Tick
    \/ Forget

SpecShow == InitShow /\ [][NextShow]_vars

(***************************************************************************)
(* Vocabulary of the properties.                                           *)
(***************************************************************************)
\* The step is a run of get_cached_result(k).
LookupStep(k) == last.op # "get" /\ last'.op = "get" /\ last'.key = k

\* The step is a run of set_cached_result(k, ...).
PopulateStep(k) ==
    last.op # "get" /\ last'.op = "set" /\ last'.key = k /\ now' = now

\* The call record c made the tier call op and it went through.
Did(c, tier, op) == \E i \in 1..Len(c.calls) : c.calls[i] = Call(tier, op, TRUE)

\* No call of record c on the tier failed.
NoError(c, tier) ==
    \A i \in 1..Len(c.calls) : c.calls[i].tier = tier => c.calls[i].ok

\* No call of record c on the tier went through.
AllError(c, tier) ==
    \A i \in 1..Len(c.calls) : c.calls[i].tier = tier => ~c.calls[i].ok

\* The tier answered every call of record c.
FastUp(c) == r = "conn" /\ NoError(c, "fast")

DurableUp(c) == db_collection = "conn" /\ NoError(c, "durable")

\* The tier answered no call of record c.
FastDown(c) == r = "None" \/ AllError(c, "fast")

DurableDown(c) == db_collection = "None" \/ AllError(c, "durable")

\* The fast tier's entry for a value written at clock reading t.
FastEntry(v, t) ==
    [val |-> json_dumps(v),
     exp |-> t + TicksPerUnit * (DEFAULT_CACHE_TTL_SECONDS \div SecondsPerUnit)]

\* The durable document of k carries an expiry that has passed / not passed.
Expired(k) ==
    /\ k \in DOMAIN mongo /\ "expiry_time" \in DOMAIN mongo[k]
    /\ now >= mongo[k].expiry_time * TicksPerUnit

Valid(k) ==
    /\ k \in DOMAIN mongo /\ "expiry_time" \in DOMAIN mongo[k]
    /\ now < mongo[k].expiry_time * TicksPerUnit

\* C1: a lookup of k that gets no fast-tier hit and finds, in a durable tier
\* that answers its calls, a document of k whose expiry_time is not in the
\* future returns None, removes the document and leaves the fast tier as it
\* was (no entry for k).
C1_ExpiredDurableEntry ==
    [][\A k \in Keys :
         (LookupStep(k) /\ k \notin DOMAIN redis /\ Expired(k)
            /\ DurableUp(last'))
         => /\ last'.result = PyNone
            /\ k \notin DOMAIN mongo'
            /\ \A j \in DOMAIN mongo \ {k} :
                  j \in DOMAIN mongo' /\ mongo'[j] = mongo[j]
            /\ redis' = redis]_vars

\* C1's case: a lookup has found a document with a passed expiry_time and
\* deleted it.
C1_Witness ==
    /\ last.op = "get" /\ Did(last, "durable", "delete_one")
    /\ last.found.type = "dict" /\ "expiry_time" \in DOMAIN last.found.v
    /\ last.result = PyNone /\ last.key \notin DOMAIN mongo

\* C2: a lookup of k that gets no fast-tier hit and finds, in a durable tier
\* that answers, a document of k whose expiry_time is in the future returns
\* the document's data; when the fast tier takes the write, it then holds
\* the JSON text of that data under k, to expire 12 hours later.
C2_Warming ==
    [][\A k \in Keys :
         (LookupStep(k) /\ Valid(k) /\ DurableUp(last')
            /\ (k \notin DOMAIN redis \/ ~Did(last', "fast", "get")))
         => /\ last'.result = PyDict(mongo[k].data)
            /\ (r = "conn" /\ Did(last', "fast", "set"))
                 => /\ k \in DOMAIN redis'
                    /\ redis'[k] = FastEntry(mongo[k].data, now)
                    /\ json_loads(redis'[k].val) =
                         [ok |-> TRUE, v |-> mongo[k].data]
            /\ (r = "conn" /\ FastUp(last')) => Did(last', "fast", "set")]_vars

\* C2's case: a lookup was answered from the durable tier and warmed the
\* fast tier with a payload of two fields.
C2_Witness ==
    /\ last.op = "get" /\ last.out = "Cache HIT: MongoDB (Tier 2)"
    /\ Did(last, "fast", "set") /\ last.key \in DOMAIN redis
    /\ last.result = PyDict(RenewedResult)

\* The terminal classifications, and whether c is one (case-insensitively).
TerminalLabels ==
    { <<"c", "a", "n", "c", "e", "l", "l", "e", "d">>,
      <<"c", "o", "n", "c", "l", "u", "d", "e", "d">>,
      <<"e", "n", "d", "e", "d">> }

\* Letter a is letter b or its upper-case form.
SameLetter(a, b) ==
    a = b \/ \E n \in 1..Len(UPPER) : UPPER[n] = a /\ LOWER[n] = b

IsTerminal(c) ==
    /\ c.type = "str"
    /\ \E t \in TerminalLabels :
          /\ Len(t) = Len(c.v)
          /\ \A i \in 1..Len(t) : SameLetter(c.v[i], t[i])

\* Every durable document but k's is as it was.
OthersKept(k) ==
    /\ DOMAIN mongo' \ {k} = DOMAIN mongo \ {k}
    /\ \A j \in DOMAIN mongo \ {k} : mongo'[j] = mongo[j]

\* C3: a populate(k, v, c) whose durable tier answers upserts the document
\* {data: v, expiry_time: int(now + 100 years)} under k exactly when the
\* lower-cased c is cancelled, concluded or ended ("CANCELLED" as
\* "cancelled"); for every other classification it makes no durable call and
\* the durable tier stays as it was.
C3_RetentionGating ==
    [][\A k \in Keys :
         (PopulateStep(k) /\ DurableUp(last'))
         => /\ IsTerminal(last'.status)
                 => /\ Did(last', "durable", "update_one")
                    /\ k \in DOMAIN mongo'
                    /\ mongo'[k] =
                         [data |-> last'.data.v,
                          expiry_time |-> (now \div TicksPerUnit) + HUNDRED_YEARS]
                    /\ OthersKept(k)
            /\ ~IsTerminal(last'.status)
                 => /\ mongo' = mongo
                    /\ \A i \in 1..Len(last'.calls) :
                          last'.calls[i].tier # "durable"]_vars

\* C3's case: a populate with the classification "CANCELLED" has written the
\* durable document.
C3_Witness ==
    /\ last.op = "set" /\ Did(last, "durable", "update_one")
    /\ last.status = PyStr(<<"C", "A", "N", "C", "E", "L", "L", "E", "D">>)
    /\ last.key \in DOMAIN mongo /\ mongo[last.key].data = last.data.v

\* C4: no run of set_cached_result lets an exception reach its caller,
\* whatever the key, the value, the classification (absent included) and
\* the state of the tiers.
C4_PopulateNeverRaises == last.op = "set" => ~last.raised

\* C5: (a) with the fast tier unreachable and the durable tier answering,
\* populate(k, v, terminal c) followed by lookup(k) returns v; (b) with the
\* durable tier unreachable and the fast tier answering, populate(k, v, c)
\* followed by lookup(k) within the TTL returns v; (c) with both
\* unreachable lookup returns None, populate raises nothing and neither
\* tier changes; (d) a lookup whose r.get fails goes on to find_one, and a
\* lookup without a fast hit whose find_one fails returns None.
C5_GracefulDegradation ==
    [][\A k \in Keys :
         /\ (/\ last.op = "set" /\ last.key = k /\ LookupStep(k)
             /\ IsTerminal(last.status)
             /\ FastDown(last) /\ DurableUp(last)
             /\ FastDown(last') /\ DurableUp(last'))
            => last'.result = last.data
         /\ (/\ last.op = "set" /\ last.key = k /\ LookupStep(k)
             /\ last.status.type = "str"
             /\ FastUp(last) /\ DurableDown(last)
             /\ FastUp(last') /\ DurableDown(last')
             /\ now < last.at + TicksPerUnit *
                        (DEFAULT_CACHE_TTL_SECONDS \div SecondsPerUnit))
            => last'.result = last.data
         /\ (LookupStep(k) /\ FastDown(last') /\ DurableDown(last'))
            => last'.result = PyNone /\ redis' = redis /\ mongo' = mongo
         /\ (/\ PopulateStep(k) /\ last'.status.type = "str"
             /\ FastDown(last') /\ DurableDown(last'))
            => ~last'.raised /\ redis' = redis /\ mongo' = mongo
         /\ (/\ LookupStep(k) /\ r = "conn" /\ ~Did(last', "fast", "get")
             /\ db_collection = "conn")
            => /\ \E i \in 1..Len(last'.calls) :
                     /\ last'.calls[i].tier = "durable"
                     /\ last'.calls[i].op = "find_one"
               /\ (Valid(k) /\ DurableUp(last'))
                    => last'.result = PyDict(mongo[k].data)
         /\ (/\ LookupStep(k) /\ db_collection = "conn"
             /\ (k \notin DOMAIN redis \/ ~Did(last', "fast", "get"))
             /\ ~Did(last', "durable", "find_one"))
            => last'.result = PyNone]_vars

\* C5's case: with r.get and r.set failing, a lookup is answered by the
\* durable document an earlier populate wrote (kept for 100 years).
C5_Witness ==
    /\ last.op = "get" /\ last.result = PyDict(RenewedResult)
    /\ last.calls = << Call("fast", "get", FALSE),
                       Call("durable", "find_one", TRUE),
                       Call("fast", "set", FALSE) >>
    /\ last.key \notin DOMAIN redis
    /\ mongo[last.key].expiry_time >= HUNDRED_YEARS

\* C6: populate(k, v, c) followed by lookup(k) before 12 hours have passed,
\* the fast tier answering both, returns v from tier 1.
C6_RoundTrip ==
    [][\A k \in Keys :
         (/\ last.op = "set" /\ last.key = k /\ LookupStep(k)
          /\ last.status.type = "str"
          /\ FastUp(last) /\ FastUp(last')
          /\ now < last.at + TicksPerUnit *
                     (DEFAULT_CACHE_TTL_SECONDS \div SecondsPerUnit))
         => /\ last'.result = last.data
            /\ last'.out = "Cache HIT: Redis (Tier 1)"]_vars

\* C6's case: a value of two fields populated at clock reading 0 under a key
\* the durable tier does not hold is returned by a lookup at a later reading.
C6_Witness ==
    /\ last.op = "get" /\ last.out = "Cache HIT: Redis (Tier 1)"
    /\ last.result = PyDict(RenewedResult) /\ last.at > 0
    /\ last.key \notin DOMAIN mongo
    /\ redis[last.key].exp = TicksPerUnit * DEFAULT_CACHE_TTL

\* C7: a lookup of k whose r.get answers with an entry returns that entry's
\* value after that single call, leaving both tiers as they were; a durable
\* call is made only after a fast-tier miss or error; with no entry for k in
\* either tier the lookup returns None and changes neither tier.
C7_FastHitShortCircuits ==
    [][\A k \in Keys :
         /\ (LookupStep(k) /\ k \in DOMAIN redis /\ FastUp(last'))
            => /\ last'.result = PyDict(json_loads(redis[k].val).v)
               /\ last'.calls = << Call("fast", "get", TRUE) >>
               /\ redis' = redis /\ mongo' = mongo
         /\ (/\ LookupStep(k)
             /\ \E i \in 1..Len(last'.calls) : last'.calls[i].tier = "durable")
            => (k \notin DOMAIN redis \/ ~Did(last', "fast", "get"))
         /\ (LookupStep(k) /\ k \notin DOMAIN redis /\ k \notin DOMAIN mongo)
            => last'.result = PyNone /\ redis' = redis /\ mongo' = mongo]_vars

\* C7's case: a lookup answered by tier 1 alone while the durable tier holds
\* a document of the same key.
C7_Witness ==
    /\ last.op = "get" /\ last.calls = << Call("fast", "get", TRUE) >>
    /\ Truthy(last.result) /\ last.key \in DOMAIN mongo

\* C8: a populate(k, v, c) with any classification whose r.set goes through
\* leaves the fast tier holding the JSON text of v under k with a TTL of
\* 43200 s and the other entries as they were; with a Redis handle the write
\* is attempted whatever the classification.
C8_PopulateWritesFastTier ==
    [][\A k \in Keys :
         (PopulateStep(k) /\ last'.status.type = "str" /\ r = "conn")
         => /\ Len(last'.calls) >= 1
            /\ last'.calls[1].tier = "fast" /\ last'.calls[1].op = "set"
            /\ last'.calls[1].ok
                 => /\ DOMAIN redis' = DOMAIN redis \cup {k}
                    /\ redis'[k].val = json_dumps(last'.data.v)
                    /\ redis'[k].exp - now =
                         TicksPerUnit * (43200 \div SecondsPerUnit)
                    /\ \A j \in DOMAIN redis \ {k} : redis'[j] = redis[j]]_vars

\* C8's case: a populate with a terminal classification has written the
\* fast tier as well as the durable one.
C8_Witness ==
    /\ last.op = "set" /\ last.calls = << Call("fast", "set", TRUE),
                                          Call("durable", "update_one", TRUE) >>
    /\ redis[last.key].val = json_dumps(last.data.v)

\* C9: a lookup of k creates and modifies no durable document; it can only
\* delete the document of k, and only one that is not fresh.  The warming
\* leaves the document's data and expiry_time as they were.
C9_LookupNeverPersists ==
    [][\A k \in Keys :
         LookupStep(k)
         => /\ OthersKept(k)
            /\ k \in DOMAIN mongo' => (k \in DOMAIN mongo /\ mongo'[k] = mongo[k])
            /\ (k \in DOMAIN mongo /\ k \notin DOMAIN mongo') => ~Valid(k)
            /\ Did(last', "fast", "set")
                 => (k \in DOMAIN mongo' /\ mongo'[k] = mongo[k])]_vars

\* C9's case: a lookup has warmed the fast tier from a seeded document that
\* is still in the durable tier with its expiry_time of one unit.
C9_Witness ==
    /\ last.op = "get" /\ Did(last, "fast", "set")
    /\ last.key \in DOMAIN mongo
    /\ mongo[last.key] = [data |-> RenewedResult, expiry_time |-> 1]

\* No handler is running in any thread.
AllIdle == \A p \in Threads : th[p].pc = "idle"

\* C10: once the populate calls that threads ran in any interleaving are
\* done, each tier holds for k, whole, what the write it received last
\* carried: the fast tier the JSON text of that one value, the durable tier
\* the data and the expiry_time of one and the same populate.  A fast entry
\* is never a value that no write carried.
C10_LastWriteWins ==
    AllIdle =>
      \A k \in Keys :
        /\ k \in DOMAIN redis
             => /\ hist.fast[k].by # "none"
                /\ json_loads(redis[k].val) =
                     [ok |-> TRUE, v |-> hist.fast[k].data]
        /\ hist.durable[k].by = "populate"
             => /\ k \in DOMAIN mongo
                /\ mongo[k] = [data |-> hist.durable[k].data,
                               expiry_time |-> hist.durable[k].expiry_time]

\* C10's case: two populates of k1 with different values have run in two
\* threads, interleaved so that the fast tier kept the one's value and the
\* durable tier the other's.
C10_Witness ==
    /\ AllIdle
    /\ \A p \in Threads : th[p].op = "set" /\ th[p].key = "k1"
    /\ hist.fast["k1"].by = "populate" /\ hist.durable["k1"].by = "populate"
    /\ hist.fast["k1"].data # hist.durable["k1"].data
    /\ "k1" \in DOMAIN redis
    /\ json_loads(redis["k1"].val).v # mongo["k1"].data

\* The title without the blanks around it.
Core(t) ==
    LET I == {i \in 1..Len(t) : t[i] # " "}
    IN IF I = {} THEN <<>>
       ELSE SubSeq(t, CHOOSE i \in I : \A j \in I : i <= j,
                      CHOOSE i \in I : \A j \in I : i >= j)

\* Two titles are the same up to letter case and the blanks around them.
SameTitle(t1, t2) ==
    /\ Len(Core(t1)) = Len(Core(t2))
    /\ \A i \in 1..Len(Core(t1)) :
          \/ SameLetter(Core(t1)[i], Core(t2)[i])
          \/ SameLetter(Core(t2)[i], Core(t1)[i])

\* C11: two derivations for the same media type whose titles are the same
\* up to letter case and surrounding blanks return the same key (" Tb" and
\* "tb"), and two derivations for the same title with different media types
\* ("tv", "movie") return different keys.
C11_KeyDerivation ==
    [][(last.op = "_cache_key" /\ last'.op = "_cache_key")
       => /\ (/\ SameTitle(last.title, last'.title)
              /\ last.media_type = last'.media_type)
             => last'.result = last.result
          /\ (/\ last.title = last'.title
              /\ last.media_type # last'.media_type)
             => last'.result # last.result]_vars

\* C11's case: the key of " Tb" for "tv" has been derived and is the digest
\* of "tb|tv".
C11_Witness ==
    /\ last.op = "_cache_key"
    /\ last.title = <<" ", "T", "b">> /\ last.media_type = <<"t", "v">>
    /\ last.result = sha256_hexdigest(<<"t", "b", "|", "t", "v">>)

\* C12: a populate(k, v, c) that directly follows the same populate(k, v, c)
\* (the clock may have advanced, by less than the fast tier's TTL), each
\* tier answering both, leaves both tiers with the keys and the payloads
\* they had after the first: only the fast entry's expiry and the
\* document's expiry_time may differ.
C12_PopulateIdempotent ==
    [][\A k \in Keys :
         (/\ PopulateStep(k) /\ last.op = "set" /\ last.key = k
          /\ last.data = last'.data /\ last.status = last'.status
          /\ NoError(last, "fast") /\ NoError(last', "fast")
          /\ NoError(last, "durable") /\ NoError(last', "durable")
          /\ now < last.at + TicksPerUnit *
                     (DEFAULT_CACHE_TTL_SECONDS \div SecondsPerUnit))
         => /\ DOMAIN redis' = DOMAIN redis
            /\ \A j \in DOMAIN redis : redis'[j].val = redis[j].val
            /\ \A j \in DOMAIN redis \ {k} : redis'[j] = redis[j]
            /\ DOMAIN mongo' = DOMAIN mongo
            /\ \A j \in DOMAIN mongo : mongo'[j].data = mongo[j].data
            /\ OthersKept(k)]_vars

\* C12's case: a populate with a terminal classification has run a second
\* time, at a later clock reading, and written both tiers again.
C12_Witness ==
    /\ last.op = "set" /\ last.again /\ last.at = 1
    /\ last.data = PyDict(RenewedResult)
    /\ last.calls = << Call("fast", "set", TRUE),
                       Call("durable", "update_one", TRUE) >>
    /\ redis[last.key].exp = 1 + TicksPerUnit * DEFAULT_CACHE_TTL
    /\ mongo[last.key].data = RenewedResult

\* The calls of the request observed, and those of them to one function.
Ran(name) == {i \in 1..Len(last.trace) : last.trace[i].name = name}

\* The media type and the cache key of the request observed.
MediaOf(c) == IF c.is_tv THEN <<"t", "v">> ELSE <<"m", "o", "v", "i", "e">>

KeyOf(c) == _cache_key(c.showName, MediaOf(c))

\* C14: a show-status request with a name first looks its key up.  When the
\* lookup returns a non-empty value, the request runs nothing else (no
\* search, no summary, no populate) and answers that value marked cached.
\* Otherwise it runs the search, then the summary exactly when the search
\* returned sources, then one populate of its key with the result and the
\* result's status, and answers with that result; with no sources the
\* result populated is the "Unknown" fallback.
C14_CallerProtocol ==
    (last.op = "show_status" /\ last.code # 400)
    => /\ Len(last.trace) >= 1
       /\ last.trace[1].name = "get_cached_result"
       /\ last.trace[1].args = <<KeyOf(last)>>
       /\ Truthy(last.trace[1].ret)
            => /\ Len(last.trace) = 1
               /\ last.code = 200
               /\ last.body =
                    PyDict(last.trace[1].ret.v \o << <<"cached", TRUE>> >>)
       /\ ~Truthy(last.trace[1].ret)
            => /\ Len(last.trace) >= 3
               /\ last.trace[2].name = "brave_search"
               /\ Ran("summarise_with_openai") =
                    (IF last.trace[2].ret = <<>> THEN {} ELSE {3})
               /\ Ran("set_cached_result") = {Len(last.trace)}
               /\ Ran("get_cached_result") = {1}
               /\ Ran("brave_search") = {2}
               /\ LET populate == last.trace[Len(last.trace)]
                  IN /\ populate.args[1] = KeyOf(last)
                     /\ populate.args[3] =
                          PyStr(dict_get(populate.args[2], "status", <<>>))
                     /\ last.code = 200 => last.body = PyDict(populate.args[2])
                     /\ last.trace[2].ret = <<>>
                          => /\ populate.args[3] = PyStr(Unknown)
                             /\ dict_get(populate.args[2], "sources", 0) = <<>>

\* C14's case, the miss: a request found nothing cached, got sources and a
\* summary with the status "Cancelled", and populated its key with it.
C14_Witness ==
    /\ last.op = "show_status" /\ Len(last.trace) = 4
    /\ last.trace[1].ret = PyNone
    /\ last.trace[4].name = "set_cached_result"
    /\ last.trace[4].args[3] = PyStr(Cancelled)
    /\ KeyOf(last) \in DOMAIN redis /\ KeyOf(last) \in DOMAIN mongo
    /\ mongo[KeyOf(last)].data = last.body.v

\* C14's case, the hit: a request was answered from the cache after the
\* lookup alone.
C14_WitnessHit ==
    /\ last.op = "show_status" /\ Len(last.trace) = 1
    /\ Truthy(last.trace[1].ret) /\ last.code = 200

\* C15: a lookup of k that follows a populate(k, v, c), with any time
\* passed in between and every tier call of both answered, returns None or
\* v: never the value of an earlier populate of k that this one superseded
\* (populate(k, v1, "cancelled"), populate(k, v2, "unknown"), and lookup(k)
\* once the fast entry has expired).
C15_Freshness ==
    [][\A k \in Keys :
         (/\ last.op = "set" /\ last.key = k /\ ~last.raised /\ LookupStep(k)
          /\ FastUp(last) /\ FastUp(last')
          /\ DurableUp(last) /\ DurableUp(last')
          /\ k \in DOMAIN mongo
          /\ DictGet(mongo[k], "expiry_time", 0) >= HUNDRED_YEARS)
         => (last'.result = PyNone \/ last'.result = last.data)]_vars

\* C16: when a lookup of k on the durable-hit path runs concurrently with a
\* populate(k, v2, c), the lookup's warming write never replaces the fast
\* entry the populate wrote by the older payload the lookup read from the
\* durable tier before: here, for a lookup whose r.get found no entry,
\* while the populate is between its r.set and its update_one, so that
\* after both are done the fast tier holds v2.
C16_NoStaleWarming ==
    [][\A p \in Threads :
         (/\ th[p].pc = "s1" /\ th[p].op = "get" /\ th'[p].pc = "idle"
          /\ th[p].json_data = PyNone
          /\ hist'.fast[th[p].key].by = "warm")
         => ~ \E q \in Threads \ {p} :
                 /\ th[q].pc = "s2" /\ th[q].op = "set"
                 /\ th[q].key = th[p].key
                 /\ th[p].key \in DOMAIN redis
                 /\ hist.fast[th[p].key].by = "populate"
                 /\ hist.fast[th[p].key].data = th[q].data
                 /\ th[p].data # th[q].data]_vars

\* C17: whenever no handler is running and both tiers hold an unexpired
\* entry for k (here: a durable document that a populate of this process
\* wrote, kept for 100 years, no tier call having failed), the value of
\* the fast entry is the data of the durable document.
C17_CrossTierAgreement ==
    AllIdle =>
      \A k \in Keys :
        (/\ k \in DOMAIN redis /\ Valid(k)
         /\ mongo[k].expiry_time >= HUNDRED_YEARS
         /\ ~hist.failed)
        => json_loads(redis[k].val) = [ok |-> TRUE, v |-> mongo[k].data]

\* C18: whatever the interleaving of the threads' calls and whichever tier
\* calls fail, a lookup of k that returns something returns a payload that
\* a populate of k had stored under k before, or that a document the
\* durable tier started with under k carried: never the payload of another
\* key, never one that nothing stored.
C18_CacheIntegrity ==
    \A p \in Threads :
      (th[p].pc = "idle" /\ th[p].op = "get" /\ th[p].result # PyNone)
      => /\ th[p].result.type = "dict"
         /\ th[p].result.v \in hist.written[th[p].key]

\* C18's case: after a tier call has failed, a lookup of k1 has returned
\* the payload of a populate of k1 that is still running in another thread,
\* while the durable tier holds another payload under k2.
C18_Witness ==
    \E p \in Threads, q \in Threads :
      /\ th[p].pc = "idle" /\ th[p].op = "get" /\ th[p].key = "k1"
      /\ th[p].result = PyDict(RenewedResult)
      /\ th[q].pc = "s2" /\ th[q].key = "k1" /\ th[q].data = RenewedResult
      /\ hist.failed /\ hist.written["k1"] = {RenewedResult}
      /\ "k2" \in DOMAIN mongo /\ mongo["k2"].data = OtherResult

\* C19: a lookup of k that gets no fast-tier hit and finds, in a durable
\* tier that answers its calls, a document of k without an expiry_time
\* treats it as expired at time 0: it returns None, deletes the document and
\* makes no call on the fast tier but the r.get, leaving it as it was.
C19_MissingExpiry ==
    [][\A k \in Keys :
         (/\ LookupStep(k)
          /\ k \in DOMAIN mongo /\ "expiry_time" \notin DOMAIN mongo[k]
          /\ (k \notin DOMAIN redis \/ ~Did(last', "fast", "get"))
          /\ DurableUp(last'))
         => /\ last'.result = PyNone
            /\ last'.out = "Cache MISS"
            /\ Did(last', "durable", "delete_one")
            /\ k \notin DOMAIN mongo'
            /\ OthersKept(k)
            /\ \A i \in 1..Len(last'.calls) :
                  last'.calls[i].tier = "fast" => last'.calls[i].op = "get"
            /\ redis' = redis]_vars

\* C19's case: at a clock reading after 0 a lookup has found a document
\* without an expiry_time and deleted it.
C19_Witness ==
    /\ last.op = "get" /\ last.at > 0 /\ last.result = PyNone
    /\ last.found.type = "dict" /\ "expiry_time" \notin DOMAIN last.found.v
    /\ Did(last, "fast", "get") /\ Did(last, "durable", "delete_one")
    /\ last.key \notin DOMAIN mongo /\ last.key \notin DOMAIN redis

====
